---- MODULE Spec2Model ----
(***************************************************************************)
(* A model of src/functions.py: the index-accelerated overlay              *)
(* spatial_overlays, the country loader get_country with its retried read  *)
(* and the reclassification map_roads, and the two row-wise conditional    *)
(* geometry transforms.                                                    *)
(*                                                                         *)
(* Geometry.  A geometry is a finite union of unit cells of a line:        *)
(* cell c is the closed interval [c, c+1].  Its point set is the field     *)
(* cells; the field valid says whether the stored representation is        *)
(* topologically valid (what buffer(0) establishes).  Boolean operations   *)
(* are the set operations on cells; two shapes that share only a boundary  *)
(* point have an intersection of zero extent, which buffer(0) turns into   *)
(* the empty geometry, so it is the empty cell set here.                   *)
(*                                                                         *)
(* Data frames.  A frame is a record of its column names in order, its     *)
(* index labels in row order and its rows, each row a function from the    *)
(* column names to values.  Row positions are counted from 0 as pandas     *)
(* counts them; position p is element p+1 of the sequences.                *)
(***************************************************************************)
EXTENDS Integers, Sequences, FiniteSets, TLC

VARIABLES
    pc,             \* which call is in progress and where it stands
    df1, df2,       \* the caller's two collections handed to spatial_overlays
    how,            \* the mode argument of spatial_overlays
    reduce_bound,   \* whether the name reduce resolves in the interpreter
    result,         \* what the call returned or raised
    load_country,   \* get_country: the frame read and then filtered
    shp,            \* get_country: the frame the successful read found in the file
    RAI,            \* get_country: the RAI argument
    trace,          \* get_country: the reads and sleeps performed, in order
    x,              \* the row handed to a row-wise transform
    geo             \* the reference geometry handed to a row-wise transform

vars == <<pc, df1, df2, how, reduce_bound, result, load_country, shp, RAI,
          trace, x, geo>>

overlay_vars == <<df1, df2, how, reduce_bound>>
country_vars == <<load_country, shp, RAI, trace>>
row_vars == <<x, geo>>

(***************************************************************************)
(* Bounds of the model.                                                    *)
(***************************************************************************)
NCells == 3

Cells == 0 .. (NCells - 1)

\* Row counts of an input collection (both inputs are non-empty).
RowCounts == {1, 2}

\* The index of B is its row positions shifted by an offset: offset 0 is the
\* default index 0..n-1, offset k is the index left after the first k rows
\* of a longer frame were filtered away.
MaxOffset == 1

IndexOffsets == 0 .. MaxOffset

\* The two recognised modes and two values that are neither.
Modes == {"intersection", "difference", "union", "Intersection"}

(***************************************************************************)
(* Sequences.                                                              *)
(***************************************************************************)
Range(s) == {s[k] : k \in 1 .. Len(s)}

RECURSIVE Concat(_)
Concat(ss) == IF ss = <<>> THEN <<>> ELSE Head(ss) \o Concat(Tail(ss))

\* list.remove(v): the list without its first v.
RECURSIVE Remove(_, _)
Remove(s, v) ==
    IF s = <<>> THEN <<>>
    ELSE IF Head(s) = v THEN Tail(s) ELSE <<Head(s)>> \o Remove(Tail(s), v)

SetMin(S) == CHOOSE m \in S : \A n \in S : m <= n
SetMax(S) == CHOOSE m \in S : \A n \in S : m >= n

(***************************************************************************)
(* Geometry.                                                               *)
(***************************************************************************)
Geometry == [cells : SUBSET Cells, valid : BOOLEAN]

EmptyGeometry == [cells |-> {}, valid |-> TRUE]

\* geometry.buffer(0): the same point set, topologically valid.
buffer0(g) == [cells |-> g.cells, valid |-> TRUE]

is_empty(g) == g.cells = {}

\* geometry.bounds: the extent (min, max) of the union of the closed cells.
bounds(g) == <<SetMin(g.cells), SetMax(g.cells) + 1>>

\* a.intersection(b) and a.difference(b) of the geometry library.
intersection(a, b) ==
    [cells |-> a.cells \cap b.cells, valid |-> a.valid /\ b.valid]

difference(a, b) ==
    [cells |-> a.cells \ b.cells, valid |-> a.valid /\ b.valid]

\* Closed boxes intersect also when they only touch.
boxes_intersect(p, q) == p[1] <= q[2] /\ q[1] <= p[2]

(***************************************************************************)
(* Data frames.                                                            *)
(***************************************************************************)
Frame(columns, index, rows) ==
    [columns |-> columns, index |-> index, rows |-> rows]

nrows(df) == Len(df.rows)

Positions(df) == [p \in 1 .. nrows(df) |-> p]

\* df[c] = values, one value per row: the column is overwritten when the
\* frame has it and appended when it does not.
set_column(df, c, values) ==
    Frame(IF c \in Range(df.columns) THEN df.columns ELSE Append(df.columns, c),
          df.index,
          [p \in 1 .. nrows(df) |->
              [k \in DOMAIN df.rows[p] \cup {c} |->
                  IF k = c THEN values[p] ELSE df.rows[p][k]]])

\* df.loc[mask]: the rows whose mask entry is true, in order, with their
\* labels.
loc(df, mask) ==
    LET kept == SelectSeq(Positions(df), LAMBDA p : mask[p])
    IN  Frame(df.columns,
              [k \in 1 .. Len(kept) |-> df.index[kept[k]]],
              [k \in 1 .. Len(kept) |-> df.rows[kept[k]]])

\* df[cols]: the columns cols, in that order.
project(df, cols) ==
    Frame(cols, df.index,
          [p \in 1 .. nrows(df) |-> [k \in Range(cols) |-> df.rows[p][k]]])

\* df.rename(columns={old: new}).
rename(df, old, new) ==
    Frame([k \in 1 .. Len(df.columns) |->
              IF df.columns[k] = old THEN new ELSE df.columns[k]],
          df.index,
          [p \in 1 .. nrows(df) |->
              [k \in (DOMAIN df.rows[p] \ {old}) \cup {new} |->
                  IF k = new THEN df.rows[p][old] ELSE df.rows[p][k]]])

\* A variant of copy that hands back the caller's own object.
alias(df) == [fresh |-> FALSE, val |-> df]

\* df.copy(): a new object holding the same content.  fresh records that
\* the object is not the caller's, so statements that assign into it do not
\* reach the caller.
copy(df) == [fresh |-> TRUE, val |-> df]

\* What the caller sees of the object it passed, after the callee assigned
\* into its local object until that held final.
caller_sees(passed, local, final) == IF local.fresh THEN passed ELSE final

\* What a call hands back: a frame, nothing (None), or an exception.
Returned(df) == [kind |-> "frame", df |-> df]
None == [kind |-> "None"]
Raised(exc) == [kind |-> "raise", exc |-> exc]

\* The name a column gets in a merge: suffixed when the other side has a
\* column of the same name.
suffixed(c, other, sfx) == IF c \in Range(other) THEN c \o sfx ELSE c

\* left.merge(right, left_on=key, right_index=True, suffixes=[sx, sy]), an
\* inner join: every left row, in order, with the right row whose index
\* LABEL equals the left row's key; left rows without such a label are
\* dropped.
merge(left, right, key, sx, sy) ==
    LET lcols == [k \in 1 .. Len(left.columns) |->
                    suffixed(left.columns[k], right.columns, sx)]
        rcols == [k \in 1 .. Len(right.columns) |->
                    suffixed(right.columns[k], left.columns, sy)]
        match(p) == SelectSeq(Positions(right),
                        LAMBDA q : right.index[q] = left.rows[p][key])
        joined(p, q) ==
            [c \in Range(lcols) \cup Range(rcols) |->
                IF c \in Range(lcols)
                THEN left.rows[p][left.columns[
                        CHOOSE k \in 1 .. Len(lcols) : lcols[k] = c]]
                ELSE right.rows[q][right.columns[
                        CHOOSE k \in 1 .. Len(rcols) : rcols[k] = c]]]
        hits == Concat([p \in 1 .. nrows(left) |->
                    [m \in 1 .. Len(match(p)) |-> <<p, match(p)[m]>>]])
    IN  Frame(lcols \o rcols,
              [k \in 1 .. Len(hits) |-> left.index[hits[k][1]]],
              [k \in 1 .. Len(hits) |-> joined(hits[k][1], hits[k][2])])

(***************************************************************************)
(* spatial_overlays.                                                       *)
(***************************************************************************)
\* Lines 33-34: df['geometry'] = df.geometry.buffer(0).
repaired(df) ==
    set_column(df, "geometry",
        [p \in 1 .. nrows(df) |-> buffer0(df.rows[p]["geometry"])])

\* spatial_index.intersection(box) on df.sindex: the row POSITIONS (from 0)
\* of the non-empty geometries of df whose bounding box intersects box.
sindex_intersection(df, box) ==
    LET hit == SelectSeq(Positions(df),
                   LAMBDA p : /\ ~is_empty(df.rows[p]["geometry"])
                              /\ boxes_intersect(bounds(df.rows[p]["geometry"]), box))
    IN  [k \in 1 .. Len(hit) |-> hit[k] - 1]

\* Lines 42-43 and 71-72: the bbox column, then the histreg column with the
\* candidate positions in d2.
with_candidates(d1, d2) ==
    LET boxed == set_column(d1, "bbox",
                    [p \in 1 .. nrows(d1) |-> bounds(d1.rows[p]["geometry"])])
    IN  set_column(boxed, "histreg",
            [p \in 1 .. nrows(d1) |-> sindex_intersection(d2, boxed.rows[p]["bbox"])])

\* Lines 44-50: one row [idx1, idx2] per index label i of d1 and candidate k
\* of that row.
nei(d1) ==
    LET list == Concat([p \in 1 .. nrows(d1) |->
                    [m \in 1 .. Len(d1.rows[p]["histreg"]) |->
                        <<d1.index[p], d1.rows[p]["histreg"][m]>>]])
    IN  Frame(<<"idx1", "idx2">>,
              [k \in 1 .. Len(list) |-> k - 1],
              [k \in 1 .. Len(list) |->
                  [c \in {"idx1", "idx2"} |->
                      IF c = "idx1" THEN list[k][1] ELSE list[k][2]]])

\* A variant of Removed that leaves the bbox column in.
Removed_short == <<"geometry_1", "geometry_2", "histreg", "Intersection">>

\* Lines 55-60: the five names cols.remove() takes out of the column list;
\* list.remove raises ValueError for a name that is not in the list.
Removed == <<"geometry_1", "geometry_2", "histreg", "bbox", "Intersection">>

RECURSIVE remove_all(_, _)
remove_all(cols, names) ==
    IF names = <<>> THEN cols
    ELSE remove_all(Remove(cols, Head(names)), Tail(names))

\* A variant of drop_empty that filters nothing.
keep_all(df) == df

\* Line 64: dfinter.loc[dfinter.geometry.is_empty == False].
drop_empty(df) ==
    loc(df, [p \in 1 .. nrows(df) |-> ~is_empty(df.rows[p]["geometry"])])

\* Lines 41-65, on the repaired copies; c1 is d1 after lines 42-43.
overlay_intersection(c1, d2) ==
    LET pairs1 == merge(nei(c1), c1, "idx1", "_x", "_y")
        pairs2 == merge(pairs1, d2, "idx2", "_1", "_2")
        pairs == set_column(pairs2, "Intersection",
                    [p \in 1 .. nrows(pairs2) |->
                        buffer0(intersection(pairs2.rows[p]["geometry_1"],
                                             pairs2.rows[p]["geometry_2"]))])
        cols == remove_all(pairs.columns, Removed)
        dfinter == rename(project(pairs, Append(cols, "Intersection")),
                          "Intersection", "geometry")
    IN  IF \E k \in 1 .. Len(Removed) : Removed[k] \notin Range(pairs.columns)
        THEN Raised("ValueError")
        ELSE Returned(drop_empty(dfinter))

\* reduce(f, list), the left-to-right fold, with list[0] as the start value.
RECURSIVE fold_difference(_, _)
fold_difference(acc, list) ==
    IF list = <<>> THEN acc
    ELSE fold_difference(buffer0(difference(acc, Head(list))), Tail(list))

\* Line 73 for one row: [x.geometry] + list(df2.iloc[x.histreg].geometry),
\* folded.  iloc takes row POSITIONS.
new_g(r, d2) ==
    fold_difference(r["geometry"],
        [m \in 1 .. Len(r["histreg"]) |-> d2.rows[r["histreg"][m] + 1]["geometry"]])

\* df.drop(names, axis=1).
drop(df, names) ==
    project(df, SelectSeq(df.columns, LAMBDA c : c \notin names))

\* Lines 73-74: the object df1 after new_g was computed and assigned to the
\* geometry column.
erased(c1, d2) ==
    LET folded == set_column(c1, "new_g",
                    [p \in 1 .. nrows(c1) |-> new_g(c1.rows[p], d2)])
    IN  set_column(folded, "geometry",
            [p \in 1 .. nrows(c1) |-> folded.rows[p]["new_g"]])

\* Lines 75-77.
overlay_difference(e1) ==
    Returned(drop(drop_empty(e1), {"bbox", "histreg", "new_g"}))

\* A variant of branch with a plain else for the second branch.
branch_else(h) == IF h = "intersection" THEN "intersection" ELSE "difference"

\* Lines 39 and 69: the branch the if/elif chain takes for a mode value.
branch(h) ==
    IF h = "intersection" THEN "intersection"
    ELSE IF h = "difference" THEN "difference"
    ELSE "none"

\* The whole call.  ret is what it returns or raises; df1 and df2 are the
\* caller's objects as the call leaves them.  rb says whether the global
\* name reduce resolves: the module never imports it, so it does where
\* reduce is a builtin and raises NameError at line 73 where it is not.
spatial_overlays(a, b, h, rb) ==
    LET l1 == copy(a)
        l2 == copy(b)
        d1 == repaired(l1.val)
        d2 == repaired(l2.val)
        c1 == with_candidates(d1, d2)
        e1 == erased(c1, d2)
    IN  CASE branch(h) = "intersection" ->
                [ret |-> overlay_intersection(c1, d2),
                 df1 |-> caller_sees(a, l1, c1),
                 df2 |-> caller_sees(b, l2, d2)]
          [] branch(h) = "difference" /\ rb ->
                [ret |-> overlay_difference(e1),
                 df1 |-> caller_sees(a, l1, e1),
                 df2 |-> caller_sees(b, l2, d2)]
          [] branch(h) = "difference" /\ ~rb ->
                [ret |-> Raised("NameError"),
                 df1 |-> caller_sees(a, l1, c1),
                 df2 |-> caller_sees(b, l2, d2)]
          [] OTHER ->
                [ret |-> None,
                 df1 |-> caller_sees(a, l1, d1),
                 df2 |-> caller_sees(b, l2, d2)]

(***************************************************************************)
(* The inputs of spatial_overlays.                                         *)
(***************************************************************************)
\* The non-empty geometries a caller may hand in, valid or not, and the
\* valid ones among them.
InputGeometries == {g \in Geometry : g.cells # {}}
ValidGeometries == {g \in InputGeometries : g.valid}

\* A collection with the attribute columns attrs, the index labels
\* offset .. offset+n-1 and the geometries geoms.  The attribute value of a
\* row names the collection, the row position and the column, so that the
\* origin of every value in an output can be read off it.
Collection(tag, attrs, offset, geoms) ==
    Frame(Append(attrs, "geometry"),
          [p \in 1 .. Len(geoms) |-> offset + p - 1],
          [p \in 1 .. Len(geoms) |->
              [c \in Range(attrs) \cup {"geometry"} |->
                  IF c = "geometry" THEN geoms[p] ELSE <<tag, p - 1, c>>]])

Lists(S, counts) == UNION {[1 .. n -> S] : n \in counts}

\* The attribute schemas tried: every sub-list of three names, one of which
\* is a name the overlay uses for a working column of its own.
AttrNames == <<"name", "kind", "bbox">>
Schemas == {SelectSeq(AttrNames, LAMBDA c : c \in S) : S \in SUBSET Range(AttrNames)}

NoFrame == Frame(<<>>, <<>>, <<>>)

IdleOverlay ==
    /\ df1 = NoFrame
    /\ df2 = NoFrame
    /\ how = "intersection"
    /\ reduce_bound = TRUE

IdleCountry ==
    /\ load_country = NoFrame
    /\ shp = NoFrame
    /\ RAI = FALSE
    /\ trace = <<>>

IdleRow ==
    /\ x = [geometry |-> EmptyGeometry]
    /\ geo = EmptyGeometry

\* The mode, and whether reduce resolves (it is looked up in difference
\* mode only).
InitMode ==
    /\ how \in Modes
    /\ reduce_bound \in BOOLEAN
    /\ (how # "difference") => reduce_bound

\* Valid geometries, one or two rows in each collection, B's index at
\* either offset.
InitOverlay ==
    /\ pc = "overlay"
    /\ \E ga \in Lists(ValidGeometries, RowCounts),
          gb \in Lists(ValidGeometries, RowCounts), off \in IndexOffsets :
          /\ df1 = Collection("A", <<"name", "kind">>, 0, ga)
          /\ df2 = Collection("B", <<"name", "pop">>, off, gb)
    /\ InitMode
    /\ result = None
    /\ IdleCountry /\ IdleRow

\* Geometries valid or not: one or two rows in A, one row in B.
InitRepair ==
    /\ pc = "overlay"
    /\ \E ga \in Lists(InputGeometries, RowCounts),
          gb \in Lists(InputGeometries, {1}), off \in IndexOffsets :
          /\ df1 = Collection("A", <<"name", "kind">>, 0, ga)
          /\ df2 = Collection("B", <<"name", "pop">>, off, gb)
    /\ InitMode
    /\ result = None
    /\ IdleCountry /\ IdleRow

\* Every pair of schemas, one valid geometry in each collection.
InitSchema ==
    /\ pc = "overlay"
    /\ \E sa \in Schemas, sb \in Schemas,
          ga \in Lists(ValidGeometries, {1}), gb \in Lists(ValidGeometries, {1}) :
          /\ df1 = Collection("A", sa, 0, ga)
          /\ df2 = Collection("B", sb, 0, gb)
    /\ InitMode
    /\ result = None
    /\ IdleCountry /\ IdleRow

\* The call spatial_overlays(df1, df2, how).
Overlay ==
    /\ pc = "overlay"
    /\ \E out \in {spatial_overlays(df1, df2, how, reduce_bound)} :
           /\ result' = out.ret
           /\ df1' = out.df1
           /\ df2' = out.df2
    /\ pc' = "returned"
    /\ UNCHANGED <<how, reduce_bound, country_vars, row_vars>>

NextOverlay == Overlay

SpecOverlay == InitOverlay /\ [][NextOverlay]_vars
SpecRepair == InitRepair /\ [][NextOverlay]_vars
SpecSchema == InitSchema /\ [][NextOverlay]_vars

(***************************************************************************)
(* get_country and map_roads.                                              *)
(*                                                                         *)
(* A road frame is a record of its column names and its rows.  A row       *)
(* stands for n records that are equal in every column; n is kept in the   *)
(* field n of the row beside its columns.  The geometry of a road is       *)
(* given by its length in km, which is all that line_length reads of it.   *)
(*                                                                         *)
(* The model of get_country starts at the first read (line 130): lines     *)
(* 118-124 only run the external tools that write the file, and what the   *)
(* file holds is chosen when a read succeeds.                              *)
(***************************************************************************)
RoadFrame(columns, rows) == [columns |-> columns, rows |-> rows]

\* The tags tried: one that get_country always keeps, one it keeps when
\* frequent, one that is not in the table.
RowTags == {"primary", "path", "bogus"}

\* Numbers of equal records and lengths, on both sides of the two limits.
RowMultiplicities == {20, 21}
RowLengths == {499, 500}
MaxGroups == 2

GroupCounts == 1 .. MaxGroups

\* The frames gpd.read_file may hand back: the highway column that
\* extract_osm writes, and an fclass column or none.
RoadRows(with_fclass) ==
    IF with_fclass
    THEN {[c \in {"highway", "fclass", "geometry", "n"} |->
              CASE c = "highway" -> h [] c = "fclass" -> f
                [] c = "geometry" -> km [] OTHER -> n] :
            h \in RowTags, f \in RowTags, km \in RowLengths, n \in RowMultiplicities}
    ELSE {[c \in {"highway", "geometry", "n"} |->
              CASE c = "highway" -> h [] c = "geometry" -> km [] OTHER -> n] :
            h \in RowTags, km \in RowLengths, n \in RowMultiplicities}

Shapefiles ==
    {RoadFrame(<<"highway", "fclass", "geometry">>, rows) :
        rows \in Lists(RoadRows(TRUE), GroupCounts)}
    \cup {RoadFrame(<<"highway", "geometry">>, rows) :
        rows \in Lists(RoadRows(FALSE), GroupCounts)}

\* Lines 241-304: the reclassification table.
dict_map ==
    "disused" :> "other" @@
    "dummy" :> "other" @@
    "planned" :> "other" @@
    "platform" :> "other" @@
    "unsurfaced" :> "track" @@
    "traffic_island" :> "other" @@
    "razed" :> "other" @@
    "abandoned" :> "other" @@
    "services" :> "track" @@
    "proposed" :> "other" @@
    "corridor" :> "track" @@
    "bus_guideway" :> "other" @@
    "bus_stop" :> "other" @@
    "rest_area" :> "other" @@
    "yes" :> "other" @@
    "trail" :> "other" @@
    "escape" :> "track" @@
    "raceway" :> "other" @@
    "emergency_access_point" :> "track" @@
    "emergency_bay" :> "track" @@
    "construction" :> "track" @@
    "bridleway" :> "track" @@
    "cycleway" :> "other" @@
    "footway" :> "other" @@
    "living_street" :> "tertiary" @@
    "path" :> "track" @@
    "pedestrian" :> "other" @@
    "primary" :> "primary" @@
    "primary_link" :> "primary" @@
    "residential" :> "tertiary" @@
    "road" :> "secondary" @@
    "secondary" :> "secondary" @@
    "secondary_link" :> "secondary" @@
    "service" :> "tertiary" @@
    "steps" :> "other" @@
    "tertiary" :> "tertiary" @@
    "tertiary_link" :> "tertiary" @@
    "track" :> "track" @@
    "unclassified" :> "tertiary" @@
    "trunk" :> "primary" @@
    "motorway" :> "primary" @@
    "trunk_link" :> "primary" @@
    "motorway_link" :> "primary" @@
    "via_ferrata" :> "other" @@
    "elevator" :> "other" @@
    "crossing" :> "other" @@
    "seasonal" :> "other" @@
    "traffic_signals" :> "other" @@
    "piste" :> "other" @@
    "dismantled" :> "other" @@
    "winter_road" :> "other" @@
    "access" :> "other" @@
    "ohm:military:Trench" :> "other" @@
    "no" :> "other" @@
    "byway" :> "other" @@
    "unmarked_route" :> "other" @@
    "track_grade1" :> "track" @@
    "track_grade2" :> "track" @@
    "track_grade3" :> "track" @@
    "track_grade4" :> "track" @@
    "track_grade5" :> "track" @@
    "unknown" :> "other"
\* The five classes of the table.
RoadClasses == {"primary", "secondary", "tertiary", "track", "other"}

\* A variant of classify that puts an unknown tag in the class other.
classify_default(tag) ==
    [ok |-> TRUE, class |-> IF tag \in DOMAIN dict_map THEN dict_map[tag] ELSE "other"]

\* Line 306, dict_map[x]: the class of a tag, or KeyError.
classify(tag) ==
    IF tag \in DOMAIN dict_map
    THEN [ok |-> TRUE, class |-> dict_map[tag]]
    ELSE [ok |-> FALSE]

\* Line 306-308: the roads column, or KeyError when the frame has no fclass
\* column or a record's tag is not in the table.
map_roads(df) ==
    IF "fclass" \notin Range(df.columns) THEN Raised("KeyError")
    ELSE IF \E k \in 1 .. Len(df.rows) : ~classify(df.rows[k]["fclass"]).ok
    THEN Raised("KeyError")
    ELSE Returned(RoadFrame(
            IF "roads" \in Range(df.columns) THEN df.columns
            ELSE Append(df.columns, "roads"),
            [k \in 1 .. Len(df.rows) |->
                [c \in DOMAIN df.rows[k] \cup {"roads"} |->
                    IF c = "roads" THEN classify(df.rows[k]["fclass"]).class
                    ELSE df.rows[k][c]]]))

RECURSIVE Sum(_)
Sum(ns) == IF ns = <<>> THEN 0 ELSE Head(ns) + Sum(Tail(ns))

\* Line 140, value_counts(): the number of records that carry tag.
value_count(df, tag) ==
    Sum([k \in 1 .. Len(df.rows) |->
            IF df.rows[k]["highway"] = tag THEN df.rows[k]["n"] ELSE 0])

\* Line 141: a tag is frequent when more than this many records carry it.
FrequencyLimit == 20

\* Line 148: a road is kept when its length is below this.
LengthLimit == 500

\* Lines 140-143: the tags kept.
uniq(df) ==
    {df.rows[k]["highway"] : k \in {j \in 1 .. Len(df.rows) :
        value_count(df, df.rows[j]["highway"]) > FrequencyLimit}}
    \cup {"primary", "secondary", "trunk", "motorway"}

\* df[mask] on a road frame.
select_rows(df, mask) ==
    RoadFrame(df.columns,
        LET kept == SelectSeq([k \in 1 .. Len(df.rows) |-> k], LAMBDA k : mask[k])
        IN  [j \in 1 .. Len(kept) |-> df.rows[kept[j]]])

\* Line 203-225, line_length: the length of a road in km.
line_length(km) == km

\* Lines 146-148: the distance column and the length filter, unless RAI.
length_filtered(df, rai) ==
    IF rai THEN df
    ELSE LET measured ==
                RoadFrame(Append(df.columns, "distance"),
                    [k \in 1 .. Len(df.rows) |->
                        [c \in DOMAIN df.rows[k] \cup {"distance"} |->
                            IF c = "distance" THEN line_length(df.rows[k]["geometry"])
                            ELSE df.rows[k][c]]])
         IN  select_rows(measured,
                [k \in 1 .. Len(df.rows) |->
                    measured.rows[k]["distance"] < LengthLimit])

\* Lines 140-148: the frame that reaches map_roads.
filtered(df, rai) ==
    length_filtered(
        select_rows(df, [k \in 1 .. Len(df.rows) |-> df.rows[k]["highway"] \in uniq(df)]),
        rai)

\* A variant of sleep_after with the same delay after every failed read.
sleep_same(failed) == 30

\* Lines 133 and 137: the seconds slept after the first and the second
\* failed read.
sleep_after(failed) == IF failed = 1 THEN 30 ELSE 60

\* Lines 131, 135 and 138: the reads get_country has in its text.
ReadAttempts == 3

\* The reads made so far.
ReadsMade == Len(SelectSeq(trace, LAMBDA e : e[1] = "read"))

InitCountry ==
    /\ pc = "try"
    /\ RAI \in BOOLEAN
    /\ load_country = NoFrame
    /\ shp = NoFrame
    /\ trace = <<>>
    /\ result = None
    /\ IdleOverlay /\ IdleRow

\* A direct call of map_roads on a frame.
InitMapRoads ==
    /\ pc = "map_roads"
    /\ RAI = FALSE
    /\ load_country \in Shapefiles
    /\ shp = load_country
    /\ trace = <<>>
    /\ result = None
    /\ IdleOverlay /\ IdleRow

\* Lines 131, 135, 138: gpd.read_file succeeds and hands back the frame in
\* the file.
ReadOk ==
    /\ pc = "try"
    /\ \E content \in Shapefiles :
          /\ shp' = content
          /\ load_country' = content
    /\ trace' = Append(trace, <<"read", 1>>)
    /\ pc' = "loaded"
    /\ UNCHANGED <<result, RAI, overlay_vars, row_vars>>

\* gpd.read_file raises.  The bare except of the first two reads catches
\* the error; the third read stands in no try, and its error leaves
\* get_country.
ReadFails ==
    /\ pc = "try"
    /\ trace' = Append(trace, <<"read", 0>>)
    /\ IF ReadsMade + 1 < ReadAttempts
       THEN pc' = "except" /\ UNCHANGED result
       ELSE pc' = "raised" /\ result' = Raised(<<"read error", ReadsMade + 1>>)
    /\ UNCHANGED <<load_country, shp, RAI, overlay_vars, row_vars>>

\* Lines 133 and 137: sleep, then the next read.
Sleep ==
    /\ pc = "except"
    /\ trace' = Append(trace, <<"sleep", sleep_after(ReadsMade)>>)
    /\ pc' = "try"
    /\ UNCHANGED <<result, load_country, shp, RAI, overlay_vars, row_vars>>

\* Lines 140-159: the filters, then map_roads, whose result is returned and
\* whose error leaves get_country.
Classify ==
    /\ pc = "loaded"
    /\ load_country' = filtered(load_country, RAI)
    /\ result' = map_roads(filtered(load_country, RAI))
    /\ pc' = IF map_roads(filtered(load_country, RAI)).kind = "raise"
             THEN "raised" ELSE "returned"
    /\ UNCHANGED <<shp, RAI, trace, overlay_vars, row_vars>>

\* map_roads(load_country), called on its own.
MapRoads ==
    /\ pc = "map_roads"
    /\ result' = map_roads(load_country)
    /\ pc' = "mapped"
    /\ UNCHANGED <<load_country, shp, RAI, trace, overlay_vars, row_vars>>

NextCountry == ReadOk \/ ReadFails \/ Sleep \/ Classify \/ MapRoads

SpecCountry == (InitCountry \/ InitMapRoads) /\ [][NextCountry]_vars

(***************************************************************************)
(* The row-wise conditional transforms.                                    *)
(***************************************************************************)
\* A geometry handed back by a row transform.
Value(g) == [kind |-> "geometry", value |-> g]

\* Lines 369-381.
geom_within_country(row, geo_country) ==
    IF ~row["within_country"]
    THEN intersection(row["geometry"], geo_country)
    ELSE row["geometry"]

\* A variant of delete_roads_urb with the polarity of geom_within_country.
delete_roads_urb_negated(row, geo_urban) ==
    IF ~row["inter_urb"]
    THEN difference(row["geometry"], geo_urban)
    ELSE row["geometry"]

\* Lines 384-395.
delete_roads_urb(row, geo_urban) ==
    IF row["inter_urb"]
    THEN difference(row["geometry"], geo_urban)
    ELSE row["geometry"]

InitRow ==
    /\ pc = "row"
    /\ x \in [geometry : InputGeometries, within_country : BOOLEAN, inter_urb : BOOLEAN]
    /\ geo \in InputGeometries
    /\ result = None
    /\ IdleOverlay /\ IdleCountry

GeomWithinCountry ==
    /\ pc = "row"
    /\ result' = Value(geom_within_country(x, geo))
    /\ pc' = "within_country"
    /\ UNCHANGED <<overlay_vars, country_vars, row_vars>>

DeleteRoadsUrb ==
    /\ pc = "row"
    /\ result' = Value(delete_roads_urb(x, geo))
    /\ pc' = "roads_urb"
    /\ UNCHANGED <<overlay_vars, country_vars, row_vars>>

NextRow == GeomWithinCountry \/ DeleteRoadsUrb

SpecRow == InitRow /\ [][NextRow]_vars

(***************************************************************************)
(* Properties of spatial_overlays.                                         *)
(***************************************************************************)
OverlayReturned == pc = "returned" /\ result.kind = "frame"

Out == result.df.rows

\* The point sets of row p of A and of row q of B, and whether q is a
\* candidate of p: their bounding boxes intersect.
CellsA(p) == df1.rows[p]["geometry"].cells
CellsB(q) == df2.rows[q]["geometry"].cells
RowsA == 1 .. nrows(df1)
RowsB == 1 .. nrows(df2)
Candidate(p, q) ==
    boxes_intersect(bounds(df1.rows[p]["geometry"]), bounds(df2.rows[q]["geometry"]))
Candidates(p) == {q \in RowsB : Candidate(p, q)}
Covered(p) == UNION {CellsB(q) : q \in Candidates(p)}

\* The attribute values of a row tell which input row it comes from.
TagA(p) == <<"A", p - 1, "name">>
TagB(q) == <<"B", q - 1, "name">>

\* C1: no record of an overlay output has an empty geometry: in
\* intersection mode no output record joins an A row and a B row whose
\* shapes do not intersect, and in difference mode an A row covered by its
\* candidates has no output record.
C1_NoEmptyGeometry ==
    OverlayReturned =>
        /\ \A k \in 1 .. Len(Out) : ~is_empty(Out[k]["geometry"])
        /\ how = "intersection" =>
              \A k \in 1 .. Len(Out), p \in RowsA, q \in RowsB :
                  (Out[k]["name_1"] = TagA(p) /\ Out[k]["name_2"] = TagB(q))
                      => CellsA(p) \cap CellsB(q) # {}
        /\ how = "difference" =>
              \A k \in 1 .. Len(Out), p \in RowsA :
                  Out[k]["name"] = TagA(p) => ~(CellsA(p) \subseteq Covered(p))

\* A candidate pair whose shapes do not intersect was dropped from an
\* intersection output that kept another pair.
C1_Witness ==
    /\ OverlayReturned /\ how = "intersection" /\ Len(Out) >= 1
    /\ \E p \in RowsA, q \in RowsB :
          Candidate(p, q) /\ CellsA(p) \cap CellsB(q) = {}

\* C2: in intersection mode the output holds exactly one record for every
\* pair of an A row and a B row with a non-empty intersection, and no other
\* record; the record carries that intersection and the attributes of both
\* rows.
IsPairRecord(r, p, q) ==
    /\ r["name_1"] = TagA(p) /\ r["kind"] = <<"A", p - 1, "kind">>
    /\ r["name_2"] = TagB(q) /\ r["pop"] = <<"B", q - 1, "pop">>
    /\ r["geometry"].cells = CellsA(p) \cap CellsB(q)

C2_ExactPairs ==
    (pc = "returned" /\ how = "intersection") =>
        /\ result.kind = "frame"
        /\ \A p \in RowsA, q \in RowsB :
              CellsA(p) \cap CellsB(q) # {} =>
                  Cardinality({k \in 1 .. Len(Out) : IsPairRecord(Out[k], p, q)}) = 1
        /\ \A k \in 1 .. Len(Out) : \E p \in RowsA, q \in RowsB :
              CellsA(p) \cap CellsB(q) # {} /\ IsPairRecord(Out[k], p, q)

\* C2 holds of the calls whose B carries the default index 0..n-1.
C2_PositionalIndex == (df2.index[1] = 0) => C2_ExactPairs

\* The geometry row p of A has in the difference output, empty when the row
\* was dropped, and the geometries of the intersection records of row p.
DifferencePart(p) ==
    UNION {Out[k]["geometry"].cells :
              k \in {j \in 1 .. Len(Out) : Out[j]["name"] = TagA(p)}}
IntersectionParts(inter, p) ==
    {inter.rows[k]["geometry"].cells :
        k \in {j \in 1 .. Len(inter.rows) : inter.rows[j]["idx1"] = df1.index[p]}}

\* C3: for every A row with a candidate, its difference geometry together
\* with the geometries of its intersection records is the row's geometry,
\* and the difference geometry meets none of the intersection geometries.
C3_DifferenceComplement ==
    (pc = "returned" /\ how = "difference") =>
        LET inter == spatial_overlays(df1, df2, "intersection", reduce_bound).ret
        IN  /\ result.kind = "frame"
            /\ inter.kind = "frame"
            /\ \A p \in RowsA : Candidates(p) # {} =>
                  /\ DifferencePart(p) \cup UNION IntersectionParts(inter.df, p)
                        = CellsA(p)
                  /\ \A part \in IntersectionParts(inter.df, p) :
                        DifferencePart(p) \cap part = {}

\* C3 holds of the calls in which reduce resolves and B carries the default
\* index.
C3_PositionalIndex ==
    (reduce_bound /\ df2.index[1] = 0) => C3_DifferenceComplement

\* C4: a mode other than the two recognised ones returns None and raises
\* nothing.
C4_UnrecognisedMode ==
    (pc = "returned" /\ how \notin {"intersection", "difference"}) => result = None

C4_Witness ==
    pc = "returned" /\ how = "Intersection" /\ result = None /\ nrows(df1) = 2

\* C5: the call leaves both of the caller's collections as they were:
\* rows, geometries, columns and index.
C5_InputsUnchanged == [][df1' = df1 /\ df2' = df2]_vars

\* After a call that returned a frame both inputs still hold an invalid
\* geometry and their own columns.
C5_Witness ==
    /\ OverlayReturned
    /\ \E p \in RowsA : ~df1.rows[p]["geometry"].valid
    /\ \E q \in RowsB : ~df2.rows[q]["geometry"].valid
    /\ df1.columns = <<"name", "kind", "geometry">>
    /\ df2.columns = <<"name", "pop", "geometry">>

\* C9: in difference mode the output holds the A rows whose geometry minus
\* the union of their candidates is not empty, in A's order and under A's
\* labels, each with that geometry, its own attributes and A's columns.
KeptRows == SelectSeq(Positions(df1), LAMBDA p : CellsA(p) \ Covered(p) # {})

C9_Difference ==
    (pc = "returned" /\ how = "difference") =>
        /\ result.kind = "frame"
        /\ result.df.columns = df1.columns
        /\ Len(Out) = Len(KeptRows)
        /\ \A k \in 1 .. Len(KeptRows) :
              /\ result.df.index[k] = df1.index[KeptRows[k]]
              /\ Out[k] = [df1.rows[KeptRows[k]] EXCEPT !["geometry"] =
                              [cells |-> CellsA(KeptRows[k]) \ Covered(KeptRows[k]),
                               valid |-> TRUE]]

\* C9 holds of the calls in which reduce resolves.
C9_ReduceBound == reduce_bound => C9_Difference

\* The attribute names of the inputs, and the names the claimed suffix rule
\* gives them in the output.
AttrsOf(df) == SelectSeq(df.columns, LAMBDA c : c # "geometry")
Renamed(attrs, other, sfx) ==
    [k \in 1 .. Len(attrs) |->
        IF attrs[k] \in Range(other) THEN attrs[k] \o sfx ELSE attrs[k]]
UnionSchema ==
    Renamed(AttrsOf(df1), AttrsOf(df2), "_1")
        \o Renamed(AttrsOf(df2), AttrsOf(df1), "_2")

WorkingNames ==
    {"idx1", "idx2", "bbox", "histreg", "Intersection", "geometry_1", "geometry_2"}

C6_TrueKeepsGeometry ==
    /\ pc = "within_country" =>
          result.value = IF x.within_country THEN x.geometry
                         ELSE [cells |-> x.geometry.cells \cap geo.cells,
                               valid |-> x.geometry.valid /\ geo.valid]
    /\ pc = "roads_urb" =>
          result.value = IF x.inter_urb THEN x.geometry
                         ELSE [cells |-> x.geometry.cells \ geo.cells,
                               valid |-> x.geometry.valid /\ geo.valid]

\* C6 as amended: geom_within_country hands back the row's geometry when
\* within_country is true and its intersection with the reference when it is
\* false; delete_roads_urb hands back the difference from the reference when
\* inter_urb is true and the row's geometry when it is false.
C6_RowTransforms ==
    /\ pc = "within_country" =>
          result.value = IF x.within_country THEN x.geometry
                         ELSE [cells |-> x.geometry.cells \cap geo.cells,
                               valid |-> x.geometry.valid /\ geo.valid]
    /\ pc = "roads_urb" =>
          result.value = IF x.inter_urb
                         THEN [cells |-> x.geometry.cells \ geo.cells,
                               valid |-> x.geometry.valid /\ geo.valid]
                         ELSE x.geometry

\* delete_roads_urb took the reference out of a row whose flag is true.
C6_Witness ==
    /\ pc = "roads_urb" /\ x.inter_urb
    /\ x.geometry.cells \cap geo.cells # {}
    /\ result.value.cells = x.geometry.cells \ geo.cells
    /\ result.value # x.geometry

(***************************************************************************)
(* Properties of get_country and map_roads.                                *)
(***************************************************************************)
ReadOkEvent == <<"read", 1>>
ReadFailEvent == <<"read", 0>>

\* What get_country may do about the file, from its call to its end.
RetrySchedules ==
    { <<ReadOkEvent>>,
      <<ReadFailEvent, <<"sleep", 30>>, ReadOkEvent>>,
      <<ReadFailEvent, <<"sleep", 30>>, ReadFailEvent, <<"sleep", 60>>, ReadOkEvent>>,
      <<ReadFailEvent, <<"sleep", 30>>, ReadFailEvent, <<"sleep", 60>>, ReadFailEvent>> }

IsPrefix(s, t) == Len(s) <= Len(t) /\ SubSeq(t, 1, Len(s)) = s

InGetCountry == pc \in {"try", "except", "loaded", "returned", "raised"}

\* C7: at most three reads; the second after a failed first and a sleep of
\* 30 s, the third after a failed second and a sleep of 60 s; nothing is
\* read or slept after a read that succeeded, and processing goes on with
\* the frame it read; when all three fail, the third read's error leaves
\* get_country and nothing was filtered or classified.
C7_BoundedRetry ==
    InGetCountry =>
        /\ \E t \in RetrySchedules : IsPrefix(trace, t)
        /\ ReadsMade <= 3
        /\ pc = "try" => (trace = <<>> \/ trace[Len(trace)][1] = "sleep")
        /\ pc = "except" => trace[Len(trace)] = ReadFailEvent
        /\ pc = "loaded" => (trace[Len(trace)] = ReadOkEvent /\ load_country = shp)
        /\ pc = "returned" => trace[Len(trace)] = ReadOkEvent
        /\ (trace # <<>> /\ trace[Len(trace)] = ReadFailEvent /\ ReadsMade = 3) =>
              /\ pc = "raised"
              /\ result = Raised(<<"read error", 3>>)
              /\ load_country = NoFrame

\* get_country returned after two failed reads and both sleeps.
C7_Witness ==
    /\ pc = "returned"
    /\ trace = <<ReadFailEvent, <<"sleep", 30>>, ReadFailEvent, <<"sleep", 60>>,
                 ReadOkEvent>>

\* The table maps every tag it holds to one of the five classes.
TableIsClosed == \A t \in DOMAIN dict_map : dict_map[t] \in RoadClasses

\* map_roads, called on its own, raises exactly when it has no fclass
\* column to read or a record's tag is not in the table; otherwise it keeps
\* every record and gives each the class of its tag.
MapRoadsIsStrict ==
    pc = "mapped" =>
        /\ result.kind = "raise" <=>
              \/ "fclass" \notin Range(load_country.columns)
              \/ \E k \in 1 .. Len(load_country.rows) :
                    load_country.rows[k]["fclass"] \notin DOMAIN dict_map
        /\ result.kind = "frame" =>
              /\ Len(result.df.rows) = Len(load_country.rows)
              /\ \A k \in 1 .. Len(load_country.rows) :
                    /\ result.df.rows[k]["roads"] = dict_map[load_country.rows[k]["fclass"]]
                    /\ \A c \in DOMAIN load_country.rows[k] :
                          result.df.rows[k][c] = load_country.rows[k][c]

\* A record of the file passes the frequency filter.
PassesFrequency(r) == value_count(shp, r["highway"]) > 20 \/
                      r["highway"] \in {"primary", "secondary", "trunk", "motorway"}

\* C8 as stated: the table is closed, map_roads is strict, and get_country
\* does not return when a tag that passes its frequency filter is not in the
\* table.
C8_FrequentUnmappedFails ==
    /\ TableIsClosed
    /\ MapRoadsIsStrict
    /\ pc = "returned" =>
          ~\E k \in 1 .. Len(shp.rows) :
              /\ PassesFrequency(shp.rows[k])
              /\ shp.rows[k]["highway"] \notin DOMAIN dict_map
              /\ shp.rows[k]["fclass"] = shp.rows[k]["highway"]

\* C8 as amended: the table is closed, map_roads is strict, and get_country
\* does not return when a record that passes the frequency filter and,
\* unless RAI, the length filter has a tag (the fclass value map_roads looks
\* up) that is not in the table.
C8_ClosedWorld ==
    /\ TableIsClosed
    /\ MapRoadsIsStrict
    /\ pc = "returned" =>
          /\ "fclass" \in Range(shp.columns)
          /\ ~\E k \in 1 .. Len(shp.rows) :
                /\ PassesFrequency(shp.rows[k])
                /\ RAI \/ shp.rows[k]["geometry"] < 500
                /\ shp.rows[k]["fclass"] \notin DOMAIN dict_map

\* get_country failed on the unmapped tag of a record that passed both
\* filters.
C8_Witness ==
    /\ pc = "raised" /\ shp # NoFrame /\ ~RAI
    /\ result = Raised("KeyError")
    /\ "fclass" \in Range(shp.columns)
    /\ Len(shp.rows) = 2
    /\ PassesFrequency(shp.rows[2]) /\ shp.rows[2]["geometry"] < 500
    /\ shp.rows[2]["fclass"] = "bogus"
    /\ shp.rows[1]["fclass"] = "path" /\ shp.rows[1]["highway"] = "path"

====
